---- MODULE Spec2Model ----
(***************************************************************************)
(* A model of the NanoMDM core: the enrollment-id normalizer, the main     *)
(* service (check-in messages and command reports) dispatching to a        *)
(* storage backend, the PostgreSQL cert-auth association table and the    *)
(* HTTP adapters.                                                          *)
(*                                                                         *)
(* Strings are sequences of one-character strings, so that concatenation,  *)
(* the colon delimiter and lower-casing are computed and not assumed.      *)
(***************************************************************************)
EXTENDS Integers, Sequences, FiniteSets, TLC

VARIABLES
    authenticated,          \* devices/users rows holding an Authenticate
    enabled,                \* enabled flag per enrollment id
    token_update_tally,     \* TokenUpdate count per enrollment id
    push_token,             \* push token per enrollment id
    bootstrap_token,        \* bootstrap token per enrollment id
    queue,                  \* enrollment_queue rows
    commands,               \* commands rows (command_uuid is the key)
    last_seen,              \* time of the last command report per enrollment id
    handlers,               \* which optional handlers the service holds
    cert_auth_associations, \* cert_auth_associations rows
    now,                    \* the database clock
    acked,                  \* history: (id, uuid) entries reported Acknowledged or Error
    revived,                \* history: those of acked reported NotNow since
    delivered,              \* history: (id, uuid) returned and not reported NotNow since
    last,                   \* outcome of the last request handled
    inflight,               \* the AssociateCertHash statement each worker runs
    w                       \* the HTTP response written for the last request

storeVars == <<authenticated, enabled, token_update_tally, push_token,
               bootstrap_token, queue, commands, last_seen>>

vars == <<authenticated, enabled, token_update_tally, push_token,
          bootstrap_token, queue, commands, last_seen, handlers,
          cert_auth_associations,
          now, acked, revived, delivered, last, inflight, w>>

certVars == <<cert_auth_associations, now>>

historyVars == <<acked, revived, delivered>>

(***************************************************************************)
(* Bounds                                                                  *)
(***************************************************************************)
MaxTally == 2

MaxClock == 2

\* A nil pointer (no EnrollID, no resolved enrollment).
Nil == [nil |-> TRUE]

None == "none"

\* An error is its chain of wrapped causes, outermost first; nil is the empty
\* chain.
NoErr == << >>

Wrap(msg, err) == <<msg>> \o err

(***************************************************************************)
(* Strings                                                                 *)
(***************************************************************************)
Colon == ":"

Empty == << >>

HasColon(s) == \E i \in DOMAIN s : s[i] = Colon

IsPrefix(p, s) ==
    /\ Len(p) <= Len(s)
    /\ \A i \in 1..Len(p) : s[i] = p[i]

(***************************************************************************)
(* Enrollment blocks and the normalizer                                    *)
(***************************************************************************)
Block(udid, enrollmentID, userID, shortName, isUser) ==
    [UDID |-> udid, EnrollmentID |-> enrollmentID, UserID |-> userID,
     UserShortName |-> shortName, IsUserChannel |-> isUser]

\* Enrollment.Resolved: the device id is the UDID, else the EnrollmentID; the
\* user id is the UserID, else the UserShortName; nil for an empty block.
Resolved(e) ==
    LET dev == IF e.UDID # Empty THEN e.UDID ELSE e.EnrollmentID
        usr == IF e.UserID # Empty THEN e.UserID ELSE e.UserShortName
        typ == IF e.UDID # Empty
                 THEN (IF e.IsUserChannel THEN "User" ELSE "Device")
                 ELSE (IF e.IsUserChannel THEN "UserEnrollment"
                                          ELSE "UserEnrollmentDevice")
    IN  IF dev = Empty /\ usr = Empty
          THEN Nil
          ELSE [Type |-> typ, DeviceChannelID |-> dev,
                IsUserChannel |-> e.IsUserChannel, UserChannelID |-> usr]

\* normalize leaving the ParentID of a user channel empty.
normalize_NoParent(e) ==
    LET r == Resolved(e)
    IN  IF r = Nil
          THEN Nil
          ELSE IF r.IsUserChannel
                 THEN [Type |-> r.Type,
                       ID |-> r.DeviceChannelID \o <<Colon>> \o r.UserChannelID,
                       ParentID |-> Empty]
                 ELSE [Type |-> r.Type, ID |-> r.DeviceChannelID,
                       ParentID |-> Empty]

\* normalize appending the user id without the delimiter.
normalize_NoDelimiter(e) ==
    LET r == Resolved(e)
    IN  IF r = Nil
          THEN Nil
          ELSE IF r.IsUserChannel
                 THEN [Type |-> r.Type,
                       ID |-> r.DeviceChannelID \o r.UserChannelID,
                       ParentID |-> r.DeviceChannelID]
                 ELSE [Type |-> r.Type, ID |-> r.DeviceChannelID,
                       ParentID |-> Empty]

normalize(e) ==
    LET r == Resolved(e)
    IN  IF r = Nil
          THEN Nil
          ELSE IF r.IsUserChannel
                 THEN [Type |-> r.Type,
                       ID |-> r.DeviceChannelID \o <<Colon>> \o r.UserChannelID,
                       ParentID |-> r.DeviceChannelID]
                 ELSE [Type |-> r.Type, ID |-> r.DeviceChannelID,
                       ParentID |-> Empty]

\* EnrollID.Validate: the device id is not empty, a user channel has a user
\* id, and neither id holds the delimiter.
Validate(eid) ==
    IF eid = Nil
      THEN <<"InvalidEnrollment">>
      ELSE IF eid.ParentID = Empty
             THEN (IF eid.ID # Empty /\ ~HasColon(eid.ID)
                     /\ eid.Type \in {"Device", "UserEnrollmentDevice"}
                     THEN NoErr ELSE <<"InvalidEnrollment">>)
             ELSE LET pre == eid.ParentID \o <<Colon>>
                      usr == SubSeq(eid.ID, Len(pre) + 1, Len(eid.ID))
                  IN  IF /\ ~HasColon(eid.ParentID)
                         /\ IsPrefix(pre, eid.ID)
                         /\ usr # Empty
                         /\ ~HasColon(usr)
                         /\ eid.Type \in {"User", "UserEnrollment"}
                        THEN NoErr ELSE <<"InvalidEnrollment">>

\* setupRequest that does not validate the EnrollID.
setupRequest_NoValidate(e) ==
    LET eid == normalize(e)
    IN  [EnrollID |-> eid, ID |-> IF eid = Nil THEN Empty ELSE eid.ID,
         err |-> NoErr]

setupRequest(e) ==
    LET eid == normalize(e)
        err == Validate(eid)
    IN  [EnrollID |-> eid, ID |-> IF eid = Nil THEN Empty ELSE eid.ID,
         err |-> err]

(***************************************************************************)
(* The finite universe of the main specification                           *)
(***************************************************************************)
DevA == <<"A">>

UsrU == <<"U">>

IdA == DevA

IdAU == DevA \o <<Colon>> \o UsrU

IDs == {IdA, IdAU}

\* The enrollment blocks of the main specification: the device channel A,
\* its user channel A:U, and an empty block.
Messages ==
    { Block(DevA, Empty, Empty, Empty, FALSE),
      Block(DevA, Empty, UsrU, Empty, TRUE),
      Block(Empty, Empty, Empty, Empty, FALSE) }

\* The enrollment blocks of the queue specification.
QueueMessages ==
    { Block(DevA, Empty, Empty, Empty, FALSE),
      Block(DevA, Empty, UsrU, Empty, TRUE) }

\* The enrollment blocks of the check-in specification: the device channel A
\* by UDID and by EnrollmentID, an empty block and a user channel without a
\* user id.
CheckinMessages ==
    { Block(DevA, Empty, Empty, Empty, FALSE),
      Block(Empty, DevA, Empty, Empty, FALSE),
      Block(Empty, Empty, Empty, Empty, FALSE),
      Block(DevA, Empty, Empty, Empty, TRUE) }

\* The command uuids of the main specification and of the queue specification.
Cmds == {"U1"}

QueueCmds == {"U1", "U2"}

Tokens == {"T1"}

\* The parent of a normalized id: what precedes its delimiter.
ParentOf(id) ==
    IF HasColon(id)
      THEN SubSeq(id, 1, (CHOOSE i \in DOMAIN id :
                            id[i] = Colon /\ \A j \in 1..(i-1) : id[j] # Colon) - 1)
      ELSE Empty

\* An enrollment and its sub-enrollments.
Family(id) == {x \in IDs : x = id \/ ParentOf(x) = id}

(***************************************************************************)
(* Storage backend                                                         *)
(***************************************************************************)
Store ==
    [authenticated |-> authenticated, enabled |-> enabled,
     token_update_tally |-> token_update_tally, push_token |-> push_token,
     bootstrap_token |-> bootstrap_token, queue |-> queue,
     commands |-> commands, last_seen |-> last_seen, now |-> now]

Commit(st) ==
    /\ authenticated' = st.authenticated
    /\ enabled' = st.enabled
    /\ token_update_tally' = st.token_update_tally
    /\ push_token' = st.push_token
    /\ bootstrap_token' = st.bootstrap_token
    /\ queue' = st.queue
    /\ commands' = st.commands
    /\ last_seen' = st.last_seen

Failed(st) == [st |-> st, err |-> <<"StorageError">>]

Done(st) == [st |-> st, err |-> NoErr]

StoreAuthenticate(st, id, fail) ==
    IF fail = "StoreAuthenticate" THEN Failed(st)
    ELSE Done([st EXCEPT !.authenticated[id] = TRUE])

ClearQueue(st, id, fail) ==
    IF fail = "ClearQueue" THEN Failed(st)
    ELSE Done([st EXCEPT !.queue = {q \in @ : q.enroll_id \notin Family(id)}])

Disable(st, id, fail) ==
    IF fail = "Disable" THEN Failed(st)
    ELSE Done([st EXCEPT !.enabled =
                 [x \in IDs |-> IF x \in Family(id) THEN FALSE ELSE @[x]]])

StoreTokenUpdate(st, id, token, fail) ==
    IF fail = "StoreTokenUpdate" THEN Failed(st)
    ELSE Done([st EXCEPT !.push_token[id] = token,
                         !.enabled[id] = TRUE,
                         !.token_update_tally[id] = @ + 1])

StoreBootstrapToken(st, id, token, fail) ==
    IF fail = "StoreBootstrapToken" THEN Failed(st)
    ELSE Done([st EXCEPT !.bootstrap_token[id] = token])

RetrieveBootstrapToken(st, id, fail) ==
    IF fail = "RetrieveBootstrapToken"
      THEN [token |-> None, err |-> <<"StorageError">>]
      ELSE [token |-> st.bootstrap_token[id], err |-> NoErr]

\* The report sets the status of the entry (id, CommandUUID); an idle poll
\* carries no CommandUUID and touches no entry.  Every report sets the
\* last_seen of the enrollment to the time of the database.
StoreCommandReport(st, id, results, fail) ==
    IF fail = "StoreCommandReport" THEN Failed(st)
    ELSE IF results.CommandUUID = ""
      THEN Done([st EXCEPT !.last_seen[id] = st.now])
      ELSE Done([st EXCEPT !.last_seen[id] = st.now,
                           !.queue =
                   {IF q.enroll_id = id /\ q.command_uuid = results.CommandUUID
                      THEN [q EXCEPT !.status = results.Status]
                      ELSE q : q \in @}])

\* The entries storage may hand out next: the pending ones, and the deferred
\* ones unless skipNotNow.
Deliverable(st, id, skipNotNow) ==
    {q.command_uuid : q \in
        {x \in st.queue :
            /\ x.enroll_id = id
            /\ \/ x.status = "pending"
               \/ x.status = "NotNow" /\ ~skipNotNow}}

\* The set of results RetrieveNextCommand may give: an error, one of the
\* deliverable commands, or none when there is none.
RetrieveNextCommand(st, id, skipNotNow, fail) ==
    IF fail = "RetrieveNextCommand"
      THEN {[cmd |-> None, err |-> <<"StorageError">>]}
      ELSE IF Deliverable(st, id, skipNotNow) = {}
        THEN {[cmd |-> None, err |-> NoErr]}
        ELSE {[cmd |-> c, err |-> NoErr] : c \in Deliverable(st, id, skipNotNow)}

\* A command uuid is the key of the commands table: a second enqueue of the
\* same uuid is refused.
EnqueueCommand(st, ids, cmd) ==
    IF cmd \in st.commands THEN Failed(st)
    ELSE Done([st EXCEPT !.commands = @ \cup {cmd},
                         !.queue = @ \cup
                            {[enroll_id |-> i, command_uuid |-> cmd,
                              status |-> "pending"] : i \in ids}])

(***************************************************************************)
(* The PostgreSQL cert-auth storage.  A row of cert_auth_associations is   *)
(* [id, sha256, created_at, updated_at]; (id, sha256) is its primary key.  *)
(* `fault` says that the database fails the statement.                     *)
(***************************************************************************)
LowerChar(c) ==
    CASE c = "A" -> "a"
      [] c = "B" -> "b"
      [] OTHER -> c

\* strings.ToLower
ToLower(h) == [i \in DOMAIN h |-> LowerChar(h[i])]

\* The rows a statement's WHERE clause selects are counted; a failed
\* statement leaves the count at zero.
queryRowContextRowExists(rows, fault) ==
    LET ct == IF fault THEN 0 ELSE Cardinality(rows)
    IN  [ok |-> ct > 0, err |-> IF fault THEN <<"StorageError">> ELSE NoErr]

EnrollmentHasCertHash(table, id, fault) ==
    queryRowContextRowExists({r \in table : r.id = id}, fault)

HasCertHash(table, hash, fault) ==
    queryRowContextRowExists({r \in table : r.sha256 = ToLower(hash)}, fault)

\* IsCertHashAssociated matching the hash alone.
IsCertHashAssociated_AnyEnrollment(table, id, hash, fault) ==
    queryRowContextRowExists({r \in table : r.sha256 = ToLower(hash)}, fault)

IsCertHashAssociated(table, id, hash, fault) ==
    queryRowContextRowExists(
        {r \in table : r.id = id /\ r.sha256 = ToLower(hash)}, fault)

\* AssociateCertHash doing nothing on a duplicated key.
AssociateCertHash_DoNothing(table, id, hash, clock, fault) ==
    IF fault
      THEN [table |-> table, err |-> <<"StorageError">>]
      ELSE IF \E r \in table : r.id = id /\ r.sha256 = ToLower(hash)
        THEN [table |-> table, err |-> NoErr]
        ELSE [table |-> table \cup
                        {[id |-> id, sha256 |-> ToLower(hash),
                          created_at |-> clock, updated_at |-> clock]},
              err |-> NoErr]

\* INSERT ... ON CONFLICT ON CONSTRAINT cert_auth_associations_pkey
\* DO UPDATE SET updated_at = now()
AssociateCertHash(table, id, hash, clock, fault) ==
    IF fault
      THEN [table |-> table, err |-> <<"StorageError">>]
      ELSE IF \E r \in table : r.id = id /\ r.sha256 = ToLower(hash)
        THEN [table |-> {IF r.id = id /\ r.sha256 = ToLower(hash)
                           THEN [r EXCEPT !.updated_at = clock]
                           ELSE r : r \in table},
              err |-> NoErr]
        ELSE [table |-> table \cup
                        {[id |-> id, sha256 |-> ToLower(hash),
                          created_at |-> clock, updated_at |-> clock]},
              err |-> NoErr]

\* SELECT id ... WHERE sha256 = $1 LIMIT 1: the ids it may give, "" for no
\* row.
EnrollmentFromHash(table, hash, fault) ==
    IF fault
      THEN {[id |-> Empty, err |-> <<"StorageError">>]}
      ELSE IF {r \in table : r.sha256 = hash} = {}
        THEN {[id |-> Empty, err |-> NoErr]}
        ELSE {[id |-> r.id, err |-> NoErr] : r \in {x \in table : x.sha256 = hash}}

(***************************************************************************)
(* The certificate authorizer in front of the service.                     *)
(***************************************************************************)
\* The gate of one request: the table it leaves and the error it gives.
\* Authenticate is let through; any other message needs its certificate hash
\* associated with its enrollment, and a first TokenUpdate associates it.
CertAuth(table, clock, kind, id, hash, fault) ==
    LET assoc  == IsCertHashAssociated(table, id, hash, fault)
        known  == HasCertHash(table, hash, fault)
        bound  == EnrollmentHasCertHash(table, id, fault)
        tofu   == AssociateCertHash(table, id, hash, clock, fault)
        Refuse(e) == [table |-> table, err |-> e]
        Pass   == [table |-> table, err |-> NoErr]
    IN  IF hash = Empty THEN Refuse(<<"MissingCert">>)
        ELSE IF kind = "Authenticate" THEN Pass
        ELSE IF assoc.err # NoErr THEN Refuse(assoc.err)
        ELSE IF assoc.ok THEN Pass
        ELSE IF known.ok THEN Refuse(<<"ForbiddenCertMismatch">>)
        ELSE IF bound.ok THEN Refuse(<<"ForbiddenCertMismatch">>)
        ELSE IF kind = "TokenUpdate" THEN tofu
        ELSE Refuse(<<"Unbound">>)

(***************************************************************************)
(* The service.  Each operation maps the storage state and a request to    *)
(* the set of its possible outcomes: the storage state it leaves, the      *)
(* error and response it returns, and the storage operations and handlers  *)
(* it invoked, in order.  `fail` names the storage operation that fails    *)
(* during the request, if any.                                             *)
(***************************************************************************)
\* One invocation of a storage operation or handler, with the error it gave.
Call(op, err) == [op |-> op, ret |-> Empty, err |-> err]

\* One invocation of an optional handler, with the bytes and error it gave.
HandlerCall(op, ret, err) == [op |-> op, ret |-> ret, err |-> err]

NoReport == [CommandUUID |-> "", Status |-> ""]

\* The outcome of a request whose enrollment setupRequest resolved to r.
Outcome(st, r, err, resp, calls) ==
    [st |-> st, EnrollID |-> r.EnrollID, ID |-> r.ID, err |-> err,
     resp |-> resp, calls |-> calls, report |-> NoReport, cert |-> Empty,
     fault |-> FALSE]

\* The outcome of a command report, with the report it answers.
Answer(results, out) ==
    [out EXCEPT !.report = [CommandUUID |-> results.CommandUUID,
                            Status |-> results.Status]]


\* Authenticate going on to Disable after a failed ClearQueue.
Authenticate_IgnoreClearQueueError(st, e, fail) ==
    LET r  == setupRequest(e)
        s1 == StoreAuthenticate(st, r.ID, fail)
        s2 == ClearQueue(s1.st, r.ID, fail)
        s3 == Disable(s2.st, r.ID, fail)
    IN  IF r.err # NoErr
          THEN {Outcome(st, r, r.err, Empty, << >>)}
        ELSE IF s1.err # NoErr
          THEN {Outcome(s1.st, r, s1.err, Empty,
                        <<Call("StoreAuthenticate", s1.err)>>)}
        ELSE {Outcome(s3.st, r, s3.err, Empty,
                      <<Call("StoreAuthenticate", s1.err),
                        Call("ClearQueue", s2.err),
                        Call("Disable", s3.err)>>)}

\* Authenticate that leaves the command queue as it is.
Authenticate_NoClearQueue(st, e, fail) ==
    LET r  == setupRequest(e)
        s1 == StoreAuthenticate(st, r.ID, fail)
        s3 == Disable(s1.st, r.ID, fail)
    IN  IF r.err # NoErr
          THEN {Outcome(st, r, r.err, Empty, << >>)}
        ELSE IF s1.err # NoErr
          THEN {Outcome(s1.st, r, s1.err, Empty,
                        <<Call("StoreAuthenticate", s1.err)>>)}
        ELSE {Outcome(s3.st, r, s3.err, Empty,
                      <<Call("StoreAuthenticate", s1.err),
                        Call("Disable", s3.err)>>)}

Authenticate(st, e, fail) ==
    LET r  == setupRequest(e)
        s1 == StoreAuthenticate(st, r.ID, fail)
        s2 == ClearQueue(s1.st, r.ID, fail)
        s3 == Disable(s2.st, r.ID, fail)
    IN  IF r.err # NoErr
          THEN {Outcome(st, r, r.err, Empty, << >>)}
        ELSE IF s1.err # NoErr
          THEN {Outcome(s1.st, r, s1.err, Empty, <<Call("StoreAuthenticate", s1.err)>>)}
        ELSE IF s2.err # NoErr
          THEN {Outcome(s2.st, r, s2.err, Empty,
                        <<Call("StoreAuthenticate", s1.err),
                          Call("ClearQueue", s2.err)>>)}
        ELSE {Outcome(s3.st, r, s3.err, Empty,
                      <<Call("StoreAuthenticate", s1.err),
                        Call("ClearQueue", s2.err),
                        Call("Disable", s3.err)>>)}

TokenUpdate(st, e, token, fail) ==
    LET r  == setupRequest(e)
        s1 == StoreTokenUpdate(st, r.ID, token, fail)
    IN  IF r.err # NoErr
          THEN {Outcome(st, r, r.err, Empty, << >>)}
          ELSE {Outcome(s1.st, r, s1.err, Empty, <<Call("StoreTokenUpdate", s1.err)>>)}

\* CheckOut that returns without disabling the enrollment.
CheckOut_NoDisable(st, e, fail) ==
    LET r == setupRequest(e)
    IN  IF r.err # NoErr
          THEN {Outcome(st, r, r.err, Empty, << >>)}
          ELSE {Outcome(st, r, NoErr, Empty, << >>)}

\* CheckOut doing what Authenticate does.
CheckOut_Reenroll(st, e, fail) ==
    Authenticate(st, e, fail)

\* CheckOut clearing the queue before it disables the enrollment.
CheckOut_ClearQueue(st, e, fail) ==
    LET r  == setupRequest(e)
        s1 == ClearQueue(st, r.ID, fail)
        s2 == Disable(s1.st, r.ID, fail)
    IN  IF r.err # NoErr
          THEN {Outcome(st, r, r.err, Empty, << >>)}
          ELSE {Outcome(s2.st, r, s2.err, Empty, <<Call("Disable", s2.err)>>)}

CheckOut(st, e, fail) ==
    LET r  == setupRequest(e)
        s1 == Disable(st, r.ID, fail)
    IN  IF r.err # NoErr
          THEN {Outcome(st, r, r.err, Empty, << >>)}
          ELSE {Outcome(s1.st, r, s1.err, Empty, <<Call("Disable", s1.err)>>)}

\* What an optional handler may return: any bytes with any error.
HandlerBytes == {Empty, <<"x">>}

HandlerErrs ==
    {NoErr, <<"HandlerError">>, <<"HTTPStatusError{400}", "cause">>,
     <<"handler", "HTTPStatusError{403}", "cause">>}

UserAuthenticate(st, e, ua) ==
    LET r == setupRequest(e)
    IN  IF r.err # NoErr
          THEN {Outcome(st, r, r.err, Empty, << >>)}
        ELSE IF ~ua
          THEN {Outcome(st, r, <<"no UserAuthenticate handler">>, Empty, << >>)}
        ELSE {Outcome(st, r, herr, hbytes, <<HandlerCall("ua.UserAuthenticate", hbytes, herr)>>) :
                  hbytes \in HandlerBytes, herr \in HandlerErrs}

SetBootstrapToken(st, e, token, fail) ==
    LET r  == setupRequest(e)
        s1 == StoreBootstrapToken(st, r.ID, token, fail)
    IN  IF r.err # NoErr
          THEN {Outcome(st, r, r.err, Empty, << >>)}
          ELSE {Outcome(s1.st, r, s1.err, Empty, <<Call("StoreBootstrapToken", s1.err)>>)}

GetBootstrapToken(st, e, fail) ==
    LET r  == setupRequest(e)
        s1 == RetrieveBootstrapToken(st, r.ID, fail)
    IN  IF r.err # NoErr
          THEN {Outcome(st, r, r.err, None, << >>)}
          ELSE {Outcome(st, r, s1.err, s1.token, <<Call("RetrieveBootstrapToken", s1.err)>>)}

\* DeclarativeManagement that drops the handler's bytes when the handler
\* returns an error.
DeclarativeManagement_DropBytes(st, e, dm) ==
    LET r == setupRequest(e)
    IN  IF r.err # NoErr
          THEN {Outcome(st, r, r.err, Empty, << >>)}
        ELSE IF ~dm
          THEN {Outcome(st, r, <<"no Declarative Management handler">>,
                        Empty, << >>)}
        ELSE {Outcome(st, r, herr, IF herr = NoErr THEN hbytes ELSE Empty,
                      <<HandlerCall("dm.DeclarativeManagement", hbytes, herr)>>) :
                  hbytes \in HandlerBytes, herr \in HandlerErrs}

DeclarativeManagement(st, e, dm) ==
    LET r == setupRequest(e)
    IN  IF r.err # NoErr
          THEN {Outcome(st, r, r.err, Empty, << >>)}
        ELSE IF ~dm
          THEN {Outcome(st, r, <<"no Declarative Management handler">>,
                        Empty, << >>)}
        ELSE {Outcome(st, r, herr, hbytes, <<HandlerCall("dm.DeclarativeManagement", hbytes, herr)>>) :
                  hbytes \in HandlerBytes, herr \in HandlerErrs}

GetToken(st, e, gt) ==
    LET r == setupRequest(e)
    IN  IF r.err # NoErr
          THEN {Outcome(st, r, r.err, Empty, << >>)}
        ELSE IF ~gt
          THEN {Outcome(st, r, <<"no GetToken handler">>, Empty, << >>)}
        ELSE {Outcome(st, r, herr, hbytes, <<HandlerCall("gt.GetToken", hbytes, herr)>>) :
                  hbytes \in HandlerBytes, herr \in HandlerErrs}

\* CommandAndReportResults retrieving the next command before it stores the
\* report.
CommandAndReportResults_RetrieveFirst(st, results, fail) ==
    LET r  == setupRequest(results.Enrollment)
        nx == RetrieveNextCommand(st, r.ID, results.Status = "NotNow", fail)
        s1 == StoreCommandReport(st, r.ID, results, fail)
    IN  IF r.err # NoErr
          THEN {Answer(results, Outcome(st, r, r.err, None, << >>))}
        ELSE IF s1.err # NoErr
          THEN {Answer(results,
                       Outcome(s1.st, r, Wrap("storing command report", s1.err),
                               None, <<Call("StoreCommandReport", s1.err)>>))}
        ELSE {Answer(results,
                     Outcome(s1.st, r,
                             IF n.err # NoErr
                               THEN Wrap("retrieving next command", n.err)
                               ELSE NoErr,
                             IF n.err # NoErr THEN None ELSE n.cmd,
                             <<Call("StoreCommandReport", s1.err),
                               Call("RetrieveNextCommand", n.err)>>)) :
                  n \in nx}

\* CommandAndReportResults asking storage to skip the deferred commands
\* whatever the reported status.
CommandAndReportResults_AlwaysSkip(st, results, fail) ==
    LET r  == setupRequest(results.Enrollment)
        s1 == StoreCommandReport(st, r.ID, results, fail)
        nx == RetrieveNextCommand(s1.st, r.ID, TRUE, fail)
    IN  IF r.err # NoErr
          THEN {Answer(results, Outcome(st, r, r.err, None, << >>))}
        ELSE IF s1.err # NoErr
          THEN {Answer(results,
                       Outcome(s1.st, r, Wrap("storing command report", s1.err),
                               None, <<Call("StoreCommandReport", s1.err)>>))}
        ELSE {Answer(results,
                     Outcome(s1.st, r,
                             IF n.err # NoErr
                               THEN Wrap("retrieving next command", n.err)
                               ELSE NoErr,
                             IF n.err # NoErr THEN None ELSE n.cmd,
                             <<Call("StoreCommandReport", s1.err),
                               Call("RetrieveNextCommand", n.err)>>)) :
                  n \in nx}

\* CommandAndReportResults taking the command it returns off the queue.
CommandAndReportResults_TakeReturned(st, results, fail) ==
    LET r  == setupRequest(results.Enrollment)
        s1 == StoreCommandReport(st, r.ID, results, fail)
        nx == RetrieveNextCommand(s1.st, r.ID, results.Status = "NotNow", fail)
        Taken(c) == [s1.st EXCEPT !.queue =
                       {q \in @ : ~(q.enroll_id = r.ID /\ q.command_uuid = c)}]
    IN  IF r.err # NoErr
          THEN {Answer(results, Outcome(st, r, r.err, None, << >>))}
        ELSE IF s1.err # NoErr
          THEN {Answer(results,
                       Outcome(s1.st, r, Wrap("storing command report", s1.err),
                               None, <<Call("StoreCommandReport", s1.err)>>))}
        ELSE {Answer(results,
                     Outcome(IF n.err = NoErr THEN Taken(n.cmd) ELSE s1.st, r,
                             IF n.err # NoErr
                               THEN Wrap("retrieving next command", n.err)
                               ELSE NoErr,
                             IF n.err # NoErr THEN None ELSE n.cmd,
                             <<Call("StoreCommandReport", s1.err),
                               Call("RetrieveNextCommand", n.err)>>)) :
                  n \in nx}

\* CommandAndReportResults never asking storage to skip the deferred
\* commands.
CommandAndReportResults_NeverSkip(st, results, fail) ==
    LET r  == setupRequest(results.Enrollment)
        s1 == StoreCommandReport(st, r.ID, results, fail)
        nx == RetrieveNextCommand(s1.st, r.ID, FALSE, fail)
    IN  IF r.err # NoErr
          THEN {Answer(results, Outcome(st, r, r.err, None, << >>))}
        ELSE IF s1.err # NoErr
          THEN {Answer(results,
                       Outcome(s1.st, r, Wrap("storing command report", s1.err),
                               None, <<Call("StoreCommandReport", s1.err)>>))}
        ELSE {Answer(results,
                     Outcome(s1.st, r,
                             IF n.err # NoErr
                               THEN Wrap("retrieving next command", n.err)
                               ELSE NoErr,
                             IF n.err # NoErr THEN None ELSE n.cmd,
                             <<Call("StoreCommandReport", s1.err),
                               Call("RetrieveNextCommand", n.err)>>)) :
                  n \in nx}

\* CommandAndReportResults storing only the reports that name a command.
CommandAndReportResults_SkipIdleReport(st, results, fail) ==
    LET r  == setupRequest(results.Enrollment)
        s1 == IF results.CommandUUID = "" THEN Done(st)
              ELSE StoreCommandReport(st, r.ID, results, fail)
        nx == RetrieveNextCommand(s1.st, r.ID, results.Status = "NotNow", fail)
    IN  IF r.err # NoErr
          THEN {Answer(results, Outcome(st, r, r.err, None, << >>))}
        ELSE IF s1.err # NoErr
          THEN {Answer(results,
                       Outcome(s1.st, r, Wrap("storing command report", s1.err),
                               None, <<Call("StoreCommandReport", s1.err)>>))}
        ELSE {Answer(results,
                     Outcome(s1.st, r,
                             IF n.err # NoErr
                               THEN Wrap("retrieving next command", n.err)
                               ELSE NoErr,
                             IF n.err # NoErr THEN None ELSE n.cmd,
                             <<Call("StoreCommandReport", s1.err),
                               Call("RetrieveNextCommand", n.err)>>)) :
                  n \in nx}

\* CommandAndReportResults undoing the stored report when the retrieval
\* of the next command fails.
CommandAndReportResults_RollBack(st, results, fail) ==
    LET r  == setupRequest(results.Enrollment)
        s1 == StoreCommandReport(st, r.ID, results, fail)
        nx == RetrieveNextCommand(s1.st, r.ID, results.Status = "NotNow", fail)
    IN  IF r.err # NoErr
          THEN {Answer(results, Outcome(st, r, r.err, None, << >>))}
        ELSE IF s1.err # NoErr
          THEN {Answer(results,
                       Outcome(s1.st, r, Wrap("storing command report", s1.err),
                               None, <<Call("StoreCommandReport", s1.err)>>))}
        ELSE {Answer(results,
                     Outcome(IF n.err # NoErr THEN st ELSE s1.st, r,
                             IF n.err # NoErr
                               THEN Wrap("retrieving next command", n.err)
                               ELSE NoErr,
                             IF n.err # NoErr THEN None ELSE n.cmd,
                             <<Call("StoreCommandReport", s1.err),
                               Call("RetrieveNextCommand", n.err)>>)) :
                  n \in nx}

CommandAndReportResults(st, results, fail) ==
    LET r  == setupRequest(results.Enrollment)
        s1 == StoreCommandReport(st, r.ID, results, fail)
        nx == RetrieveNextCommand(s1.st, r.ID, results.Status = "NotNow", fail)
    IN  IF r.err # NoErr
          THEN {Answer(results, Outcome(st, r, r.err, None, << >>))}
        ELSE IF s1.err # NoErr
          THEN {Answer(results,
                       Outcome(s1.st, r, Wrap("storing command report", s1.err),
                               None, <<Call("StoreCommandReport", s1.err)>>))}
        ELSE {Answer(results,
                     Outcome(s1.st, r,
                             IF n.err # NoErr
                               THEN Wrap("retrieving next command", n.err)
                               ELSE NoErr,
                             IF n.err # NoErr THEN None ELSE n.cmd,
                             <<Call("StoreCommandReport", s1.err),
                               Call("RetrieveNextCommand", n.err)>>)) :
                  n \in nx}

(***************************************************************************)
(* Requests                                                                *)
(***************************************************************************)
BootstrapTokens == {"B1"}

Statuses == {"Idle", "Acknowledged", "Error", "NotNow"}

\* Command reports: the idle poll, and a report on a command.
Reports(msgs, cmds, statuses) ==
    {[Enrollment |-> e, CommandUUID |-> "", Status |-> "Idle"] : e \in msgs}
    \cup
    {[Enrollment |-> e, CommandUUID |-> c, Status |-> s] :
        e \in msgs, c \in cmds, s \in statuses \ {"Idle"}}

\* The history of terminal reports: a stored report on an entry of the queue
\* with status Acknowledged or Error adds the entry to acked; a later stored
\* NotNow report on it adds it to revived, a later terminal one removes it.
\* The history of deliveries, kept with `deliveries`: a returned command is
\* added to delivered, a stored NotNow report on it removes it.
Record(out, deliveries) ==
    LET key      == <<out.ID, out.report.CommandUUID>>
        stored   == /\ Len(out.calls) >= 1
                    /\ out.calls[1].err = NoErr
                    /\ \E q \in queue : /\ q.enroll_id = out.ID
                                         /\ q.command_uuid = out.report.CommandUUID
        terminal == out.report.Status \in {"Acknowledged", "Error"}
    IN  /\ acked' = IF stored /\ terminal THEN acked \cup {key} ELSE acked
        /\ revived' = IF stored /\ terminal THEN revived \ {key}
                       ELSE IF stored /\ key \in acked
                              /\ out.report.Status = "NotNow"
                         THEN revived \cup {key}
                         ELSE revived
        /\ delivered' =
              IF ~deliveries THEN delivered
              ELSE (IF stored /\ out.report.Status = "NotNow"
                      THEN delivered \ {key} ELSE delivered)
                   \cup (IF out.err = NoErr /\ out.resp # None
                           THEN {<<out.ID, out.resp>>} ELSE {})

\* What is kept of a request: its kind, its enrollment, the certificate hash
\* it presented and what it returned and invoked.
LastOf(op, out) ==
    [op |-> op, EnrollID |-> out.EnrollID, ID |-> out.ID, err |-> out.err,
     resp |-> out.resp, calls |-> out.calls, report |-> out.report,
     cert |-> out.cert, fault |-> out.fault]

Respond(op, out) ==
    /\ \A i \in IDs : out.st.token_update_tally[i] <= MaxTally
    /\ Commit(out.st)
    /\ last' = LastOf(op, out)

AuthenticateRequest(msgs, fails) ==
    \E e \in msgs, fail \in {"none"} \cup fails :
        \E out \in Authenticate(Store, e, fail) :
            /\ Respond("Authenticate", out)
            /\ UNCHANGED <<handlers, inflight, historyVars, certVars, w>>

TokenUpdateRequest(msgs) ==
    \E e \in msgs, t \in Tokens, fail \in {"none", "StoreTokenUpdate"} :
        \E out \in TokenUpdate(Store, e, t, fail) :
            /\ Respond("TokenUpdate", out)
            /\ UNCHANGED <<handlers, inflight, historyVars, certVars, w>>

CheckOutRequest(msgs) ==
    \E e \in msgs, fail \in {"none", "Disable"} :
        \E out \in CheckOut(Store, e, fail) :
            /\ Respond("CheckOut", out)
            /\ UNCHANGED <<handlers, inflight, historyVars, certVars, w>>

UserAuthenticateRequest(msgs) ==
    \E e \in msgs :
        \E out \in UserAuthenticate(Store, e, handlers.ua) :
            /\ Respond("UserAuthenticate", out)
            /\ UNCHANGED <<handlers, inflight, historyVars, certVars, w>>

SetBootstrapTokenRequest(msgs) ==
    \E e \in msgs, t \in BootstrapTokens,
       fail \in {"none", "StoreBootstrapToken"} :
        \E out \in SetBootstrapToken(Store, e, t, fail) :
            /\ Respond("SetBootstrapToken", out)
            /\ UNCHANGED <<handlers, inflight, historyVars, certVars, w>>

GetBootstrapTokenRequest(msgs) ==
    \E e \in msgs, fail \in {"none", "RetrieveBootstrapToken"} :
        \E out \in GetBootstrapToken(Store, e, fail) :
            /\ Respond("GetBootstrapToken", out)
            /\ UNCHANGED <<handlers, inflight, historyVars, certVars, w>>

DeclarativeManagementRequest(msgs) ==
    \E e \in msgs :
        \E out \in DeclarativeManagement(Store, e, handlers.dm) :
            /\ Respond("DeclarativeManagement", out)
            /\ UNCHANGED <<handlers, inflight, historyVars, certVars, w>>

GetTokenRequest(msgs) ==
    \E e \in msgs :
        \E out \in GetToken(Store, e, handlers.gt) :
            /\ Respond("GetToken", out)
            /\ UNCHANGED <<handlers, inflight, historyVars, certVars, w>>

\* With `track` other than "none" the report is kept with the outcome and
\* in the history, with "deliveries" the deliveries are kept too.
CommandAndReportResultsRequest(msgs, cmds, fails, track) ==
    \E results \in Reports(msgs, cmds, Statuses), fail \in {"none"} \cup fails :
        \E out \in CommandAndReportResults(Store, results, fail) :
            /\ IF track # "none"
                 THEN Respond("CommandAndReportResults", out)
                      /\ Record(out, track = "deliveries")
                 ELSE /\ Respond("CommandAndReportResults",
                                 [out EXCEPT !.report = NoReport])
                      /\ UNCHANGED historyVars
            /\ UNCHANGED <<handlers, inflight, certVars, w>>

NoEnrollment == [EnrollID |-> Nil, ID |-> Empty, err |-> NoErr]

\* An administrator enqueues a new command for some enrollments.
EnqueueCommandRequest(cmds) ==
    \E ids \in SUBSET IDs \ {{}}, c \in cmds :
        LET s1 == EnqueueCommand(Store, ids, c)
        IN  Respond("EnqueueCommand",
                    Outcome(s1.st, NoEnrollment, s1.err, Empty,
                            <<Call("EnqueueCommand", s1.err)>>))
            /\ UNCHANGED <<handlers, inflight, historyVars, certVars, w>>

NoRequest == [op |-> "none", EnrollID |-> Nil, ID |-> Empty, err |-> NoErr,
              resp |-> Empty, calls |-> << >>, report |-> NoReport,
              cert |-> Empty, fault |-> FALSE]

(***************************************************************************)
(* Requests through the certificate authorizer, and calls of the cert-auth *)
(* storage.                                                                *)
(***************************************************************************)
\* The certificate hashes the authorizer computes (lowercase hex), and the
\* hashes a caller of the storage may pass.
CertHashes == {<<"a">>, <<"b">>}

AnyCaseHashes == {<<"a">>, <<"A">>, <<"b">>, <<"B">>}

\* A request of `kind` for the enrollment block e presenting the hash h:
\* the authorizer refuses it, or the service handles it with one of `outs`.
Gated(kind, e, h, fault, outs) ==
    LET r == setupRequest(e)
        g == CertAuth(cert_auth_associations, now, kind, r.ID, h, fault)
        refused == [Outcome(Store, r, IF r.err # NoErr THEN r.err ELSE g.err,
                            IF kind = "CommandAndReportResults" THEN None ELSE Empty,
                            << >>)
                      EXCEPT !.cert = h, !.fault = fault]
    IN  /\ IF r.err # NoErr \/ g.err # NoErr
             THEN /\ last' = LastOf(kind, refused)
                  /\ UNCHANGED <<storeVars, cert_auth_associations>>
             ELSE /\ cert_auth_associations' = g.table
                  /\ \E out \in outs :
                        Respond(kind, [out EXCEPT !.cert = h, !.fault = fault,
                                                  !.report = NoReport])
        /\ UNCHANGED <<now, handlers, inflight, historyVars, w>>

CertAuthAuthenticateRequest(msgs) ==
    \E e \in msgs, h \in CertHashes \cup {Empty} :
        Gated("Authenticate", e, h, FALSE, Authenticate(Store, e, "none"))

CertAuthTokenUpdateRequest(msgs) ==
    \E e \in msgs, h \in CertHashes \cup {Empty}, t \in Tokens, fault \in BOOLEAN :
        Gated("TokenUpdate", e, h, fault, TokenUpdate(Store, e, t, "none"))

CertAuthCheckOutRequest(msgs) ==
    \E e \in msgs, h \in CertHashes \cup {Empty}, fault \in BOOLEAN :
        Gated("CheckOut", e, h, fault, CheckOut(Store, e, "none"))

CertAuthCommandAndReportResultsRequest(msgs, cmds) ==
    \E results \in Reports(msgs, cmds, {"Idle", "Acknowledged"}),
       h \in CertHashes \cup {Empty}, fault \in BOOLEAN :
        Gated("CommandAndReportResults", results.Enrollment, h, fault,
              CommandAndReportResults(Store, results, "none"))

\* A caller associates a hash with an enrollment id.
AssociateCertHashCall ==
    \E id \in IDs, h \in AnyCaseHashes, fault \in BOOLEAN :
        LET a == AssociateCertHash(cert_auth_associations, id, h, now, fault)
        IN  /\ cert_auth_associations' = a.table
            /\ last' = [NoRequest EXCEPT !.op = "AssociateCertHash", !.ID = id,
                                         !.cert = h, !.err = a.err,
                                         !.fault = fault]
            /\ UNCHANGED <<storeVars, now, handlers, inflight, historyVars, w>>

(***************************************************************************)
(* AssociateCertHash run by concurrent workers.  PostgreSQL runs the       *)
(* statement INSERT ... ON CONFLICT ... DO UPDATE in two steps: it probes  *)
(* the primary key index for a conflicting row, and updates that row if    *)
(* there is one; otherwise it inserts, and if another statement has        *)
(* inserted the key since the probe, it takes the conflict action instead. *)
(***************************************************************************)
Workers == {"w1", "w2"}

IdleCall == [pc |-> "idle", id |-> Empty, sha256 |-> Empty, err |-> NoErr,
             raced |-> FALSE]

\* A second statement without the ON CONFLICT clause: the duplicated key is
\* an error.
OnConflict_Raise(table, id, sha256, clock) ==
    [table |-> table, err |-> <<"duplicate key">>]

\* ON CONFLICT ON CONSTRAINT cert_auth_associations_pkey
\* DO UPDATE SET updated_at = now()
OnConflict(table, id, sha256, clock) ==
    [table |-> {IF r.id = id /\ r.sha256 = sha256
                  THEN [r EXCEPT !.updated_at = clock]
                  ELSE r : r \in table},
     err |-> NoErr]

\* A worker calls AssociateCertHash.
BeginAssociate(k) ==
    /\ inflight[k].pc = "idle"
    /\ \E id \in IDs, h \in AnyCaseHashes :
          inflight' = [inflight EXCEPT ![k] =
                         [IdleCall EXCEPT !.pc = "probe", !.id = id,
                                          !.sha256 = ToLower(h)]]
    /\ UNCHANGED <<storeVars, certVars, handlers, historyVars, last, w>>

\* The statement probes the index: with a conflicting row it updates it.
ProbeAssociate(k) ==
    LET c == inflight[k]
        a == OnConflict(cert_auth_associations, c.id, c.sha256, now)
    IN  /\ c.pc = "probe"
        /\ IF \E r \in cert_auth_associations :
                   r.id = c.id /\ r.sha256 = c.sha256
             THEN /\ cert_auth_associations' = a.table
                  /\ inflight' = [inflight EXCEPT
                                     ![k] = [c EXCEPT !.pc = "done",
                                                      !.err = a.err]]
             ELSE /\ inflight' = [inflight EXCEPT ![k].pc = "insert"]
                  /\ UNCHANGED cert_auth_associations
        /\ UNCHANGED <<storeVars, now, handlers, historyVars, last, w>>

\* The statement inserts its row, or takes the conflict action when the key
\* was inserted since its probe.
InsertAssociate(k) ==
    LET c == inflight[k]
        a == OnConflict(cert_auth_associations, c.id, c.sha256, now)
    IN  /\ c.pc = "insert"
        /\ IF \E r \in cert_auth_associations :
                   r.id = c.id /\ r.sha256 = c.sha256
             THEN /\ cert_auth_associations' = a.table
                  /\ inflight' = [inflight EXCEPT
                                     ![k] = [c EXCEPT !.pc = "done",
                                                      !.err = a.err,
                                                      !.raced = TRUE]]
             ELSE /\ cert_auth_associations' = cert_auth_associations \cup
                        {[id |-> c.id, sha256 |-> c.sha256,
                          created_at |-> now, updated_at |-> now]}
                  /\ inflight' = [inflight EXCEPT ![k].pc = "done"]
        /\ UNCHANGED <<storeVars, now, handlers, historyVars, last, w>>

\* AssociateCertHash returns to the worker.
ReturnAssociate(k) ==
    /\ inflight[k].pc = "done"
    /\ inflight' = [inflight EXCEPT ![k] = IdleCall]
    /\ UNCHANGED <<storeVars, certVars, handlers, historyVars, last, w>>

\* A caller looks up the enrollment of a hash.
EnrollmentFromHashCall ==
    \E h \in AnyCaseHashes, fault \in BOOLEAN :
        \E res \in EnrollmentFromHash(cert_auth_associations, h, fault) :
            /\ last' = [NoRequest EXCEPT !.op = "EnrollmentFromHash",
                                         !.ID = res.id, !.cert = h,
                                         !.err = res.err, !.fault = fault]
            /\ UNCHANGED <<storeVars, cert_auth_associations, now, handlers, inflight,
                           historyVars, w>>

\* The database clock advances.
Tick ==
    /\ now < MaxClock
    /\ now' = now + 1
    /\ UNCHANGED <<storeVars, cert_auth_associations, handlers, inflight, historyVars, last, w>>

(***************************************************************************)
(* The HTTP handlers.  A response is the status written and the body, a    *)
(* sequence of bytes in which a status text is one element.                *)
(***************************************************************************)
StatusOK == 200

StatusInternalServerError == 500

\* The HTTPStatusError values an error chain may hold.
HTTPStatusErrors ==
    {[name |-> "HTTPStatusError{400}", Status |-> 400],
     [name |-> "HTTPStatusError{403}", Status |-> 403]}

StatusText(code) ==
    CASE code = 400 -> <<"Bad Request">>
      [] code = 403 -> <<"Forbidden">>
      [] code = 500 -> <<"Internal Server Error">>
      [] OTHER -> Empty

\* The response writer before anything is written: no status, no body.
NoResponse == [status |-> 0, body |-> Empty]

\* http.Error: writes the status and the text followed by a newline.
Error(rw, text, code) ==
    [status |-> IF rw.status = 0 THEN code ELSE rw.status,
     body |-> rw.body \o text \o <<"\n">>]

\* w.Write: appends the bytes; the first write without a status gives 200.
Write(rw, bytes) ==
    [status |-> IF rw.status = 0 THEN StatusOK ELSE rw.status,
     body |-> rw.body \o bytes]

\* errors.As for *HTTPStatusError: the first one of the chain, if any.
As(err) ==
    LET at == {i \in 1..Len(err) : \E h \in HTTPStatusErrors : h.name = err[i]}
        i0 == CHOOSE i \in at : \A j \in at : i <= j
    IN  IF at = {} THEN [ok |-> FALSE, Status |-> 0]
        ELSE [ok |-> TRUE,
              Status |-> (CHOOSE h \in HTTPStatusErrors : h.name = err[i0]).Status]

\* The response of the check-in handler when reading the body fails or not,
\* and the service returns respBytes and err.
CheckinHandler(readErr, respBytes, err) ==
    LET statusErr  == As(err)
        httpStatus == IF statusErr.ok THEN statusErr.Status
                      ELSE StatusInternalServerError
    IN  IF readErr
          THEN Error(NoResponse, StatusText(StatusInternalServerError),
                     StatusInternalServerError)
        ELSE IF err # NoErr
          THEN Write(Error(NoResponse, StatusText(httpStatus), httpStatus),
                     respBytes)
        ELSE Write(NoResponse, respBytes)

\* The response of the command handler.
CommandAndReportResultsHandler(readErr, respBytes, err) ==
    LET statusErr  == As(err)
        httpStatus == IF statusErr.ok THEN statusErr.Status
                      ELSE StatusInternalServerError
    IN  IF readErr
          THEN Error(NoResponse, StatusText(StatusInternalServerError),
                     StatusInternalServerError)
        ELSE IF err # NoErr
          THEN Write(Error(NoResponse, StatusText(httpStatus), httpStatus),
                     respBytes)
        ELSE Write(NoResponse, respBytes)

\* The bytes of a command the service returns: none for no command.
Raw(cmd) == IF cmd = None THEN Empty ELSE <<cmd>>

\* A request whose body could not be read: the service is not called.
Unread == [NoRequest EXCEPT !.op = "ReadAllAndReplaceBody",
                            !.err = <<"ReadError">>]

\* A check-in request over HTTP.
CheckinHandlerRequest(msgs, kinds) ==
    \E e \in msgs, kind \in kinds, readErr \in BOOLEAN :
        LET outs == CASE kind = "Authenticate" -> Authenticate(Store, e, "none")
                      [] kind = "TokenUpdate" ->
                           UNION {TokenUpdate(Store, e, t, "none") : t \in Tokens}
                      [] kind = "UserAuthenticate" ->
                           UserAuthenticate(Store, e, handlers.ua)
                      [] kind = "DeclarativeManagement" ->
                           DeclarativeManagement(Store, e, handlers.dm)
        IN  /\ IF readErr
                 THEN /\ w' = CheckinHandler(TRUE, Empty, NoErr)
                      /\ last' = Unread
                      /\ UNCHANGED storeVars
                 ELSE \E out \in outs :
                        /\ Respond(kind, out)
                        /\ w' = CheckinHandler(FALSE, out.resp, out.err)
            /\ UNCHANGED <<handlers, inflight, historyVars, certVars>>

\* A command report over HTTP.
CommandAndReportResultsHandlerRequest(msgs, cmds, fails) ==
    \E results \in Reports(msgs, cmds, Statuses), fail \in {"none"} \cup fails,
       readErr \in BOOLEAN :
        /\ IF readErr
             THEN /\ w' = CommandAndReportResultsHandler(TRUE, Empty, NoErr)
                  /\ last' = Unread
                  /\ UNCHANGED storeVars
             ELSE \E out \in CommandAndReportResults(Store, results, fail) :
                    LET bytes == Raw(out.resp)
                    IN  /\ Respond("CommandAndReportResults",
                                   [out EXCEPT !.resp = bytes, !.report = NoReport])
                        /\ w' = CommandAndReportResultsHandler(FALSE, bytes, out.err)
        /\ UNCHANGED <<handlers, inflight, historyVars, certVars>>

InitStore ==
    /\ authenticated = [i \in IDs |-> FALSE]
    /\ enabled = [i \in IDs |-> FALSE]
    /\ token_update_tally = [i \in IDs |-> 0]
    /\ push_token = [i \in IDs |-> ""]
    /\ bootstrap_token = [i \in IDs |-> ""]
    /\ queue = {}
    /\ commands = {}
    /\ last_seen = [i \in IDs |-> 0]

NoHandlers == [ua |-> FALSE, dm |-> FALSE, gt |-> FALSE]

\* The main specification: the enrollment lifecycle and the command queue,
\* with storage failures, over one command.
Init ==
    /\ InitStore
    /\ handlers = NoHandlers
    /\ cert_auth_associations = {}
    /\ now = 0
    /\ acked = {}
    /\ revived = {}
    /\ delivered = {}
    /\ last = NoRequest
    /\ w = NoResponse
    /\ inflight = [k \in Workers |-> IdleCall]

Next ==
    \/ AuthenticateRequest(Messages, {"StoreAuthenticate", "ClearQueue", "Disable"})
    \/ TokenUpdateRequest(Messages)
    \/ CheckOutRequest(Messages)
    \/ CommandAndReportResultsRequest(Messages, Cmds,
                                      {"StoreCommandReport", "RetrieveNextCommand"},
                                      "none")
    \/ EnqueueCommandRequest(Cmds)

Spec == Init /\ [][Next]_vars

\* The queue specification: reports and polls over two commands, with
\* re-enrollment clearing the queue; storage does not fail.
NextQueue ==
    \/ AuthenticateRequest(QueueMessages, {})
    \/ CommandAndReportResultsRequest(QueueMessages, QueueCmds, {}, "reports")
    \/ EnqueueCommandRequest(QueueCmds)

SpecQueue == Init /\ [][NextQueue]_vars

\* The cert-auth specification: requests through the certificate authorizer
\* to the service, over one command.
NextCertAuth ==
    \/ CertAuthAuthenticateRequest(QueueMessages)
    \/ CertAuthTokenUpdateRequest(QueueMessages)
    \/ CertAuthCheckOutRequest(QueueMessages)
    \/ CertAuthCommandAndReportResultsRequest(QueueMessages, Cmds)
    \/ EnqueueCommandRequest(Cmds)

SpecCertAuth == Init /\ [][NextCertAuth]_vars

\* The association specification: calls of AssociateCertHash as the clock
\* advances.
NextAssociate ==
    \/ AssociateCertHashCall
    \/ Tick

SpecAssociate == Init /\ [][NextAssociate]_vars

\* The check-in specification: every check-in message kind and the command
\* report, with any of the optional handlers configured.
InitCheckin ==
    /\ InitStore
    /\ handlers \in [ua : BOOLEAN, dm : BOOLEAN, gt : BOOLEAN]
    /\ cert_auth_associations = {}
    /\ now = 0
    /\ acked = {}
    /\ revived = {}
    /\ delivered = {}
    /\ last = NoRequest
    /\ w = NoResponse
    /\ inflight = [k \in Workers |-> IdleCall]

NextCheckin ==
    \/ AuthenticateRequest(CheckinMessages, {})
    \/ TokenUpdateRequest(CheckinMessages)
    \/ CheckOutRequest(CheckinMessages)
    \/ UserAuthenticateRequest(CheckinMessages)
    \/ SetBootstrapTokenRequest(CheckinMessages)
    \/ GetBootstrapTokenRequest(CheckinMessages)
    \/ DeclarativeManagementRequest(CheckinMessages)
    \/ GetTokenRequest(CheckinMessages)
    \/ CommandAndReportResultsRequest(CheckinMessages, Cmds, {}, "none")

SpecCheckin == InitCheckin /\ [][NextCheckin]_vars

\* The HTTP specification: check-in and command requests through the HTTP
\* handlers, the service holding the UserAuthenticate and the Declarative
\* Management handlers.
InitHTTP ==
    /\ InitStore
    /\ handlers = [ua |-> TRUE, dm |-> TRUE, gt |-> FALSE]
    /\ cert_auth_associations = {}
    /\ now = 0
    /\ acked = {}
    /\ revived = {}
    /\ delivered = {}
    /\ last = NoRequest
    /\ w = NoResponse
    /\ inflight = [k \in Workers |-> IdleCall]

HTTPKinds == {"Authenticate", "TokenUpdate", "UserAuthenticate",
              "DeclarativeManagement"}

NextHTTP ==
    \/ CheckinHandlerRequest(CheckinMessages, HTTPKinds)
    \/ CommandAndReportResultsHandlerRequest(CheckinMessages, Cmds,
                                             {"StoreCommandReport"})
    \/ EnqueueCommandRequest(Cmds)

SpecHTTP == InitHTTP /\ [][NextHTTP]_vars

\* The polling specification: command reports and idle polls as the clock
\* advances, with storage failures, over one command.
NextPoll ==
    \/ CommandAndReportResultsRequest(QueueMessages, Cmds,
                                      {"StoreCommandReport", "RetrieveNextCommand"},
                                      "deliveries")
    \/ EnqueueCommandRequest(Cmds)
    \/ Tick

SpecPoll == Init /\ [][NextPoll]_vars

\* The check-out specification: enrollments with push tokens, bootstrap
\* tokens, queued commands and certificate associations check out.
NextCheckOut ==
    \/ TokenUpdateRequest(QueueMessages)
    \/ SetBootstrapTokenRequest(QueueMessages)
    \/ CheckOutRequest(QueueMessages)
    \/ EnqueueCommandRequest(Cmds)
    \/ AssociateCertHashCall

SpecCheckOut == Init /\ [][NextCheckOut]_vars

\* The lookup specification: associations are made and hashes are looked
\* up, in any letter case.
NextLookup ==
    \/ AssociateCertHashCall
    \/ EnrollmentFromHashCall

SpecLookup == Init /\ [][NextLookup]_vars

\* The concurrent specification: two workers call AssociateCertHash, their
\* statements interleaved, as the clock advances.
NextConcurrent ==
    \/ \E k \in Workers : BeginAssociate(k)
    \/ \E k \in Workers : ProbeAssociate(k)
    \/ \E k \in Workers : InsertAssociate(k)
    \/ \E k \in Workers : ReturnAssociate(k)
    \/ Tick

SpecConcurrent == Init /\ [][NextConcurrent]_vars

(***************************************************************************)
(* The normalizer on its own.                                              *)
(***************************************************************************)
\* The enrollment blocks the normalizer is applied to: ids of one and two
\* characters, with and without the delimiter, in any of the four fields.
NormBlocks ==
    { Block(udid, eid, uid, short, isUser) :
        udid \in {Empty, <<"A">>, <<"A", "U">>, <<"A", ":", "U">>},
        eid \in {Empty, <<"A">>, <<"E">>},
        uid \in {Empty, <<"U">>, <<"U", "U">>, <<"U", ":", "U">>},
        short \in {Empty, <<"U">>, <<"S">>},
        isUser \in BOOLEAN }

\* The enrollment block an EnrollID stands for: its id split at the first
\* delimiter into the device id and the user id.
Inverse(eid) ==
    LET dev   == IF HasColon(eid.ID) THEN ParentOf(eid.ID) ELSE eid.ID
        usr   == IF HasColon(eid.ID)
                   THEN SubSeq(eid.ID, Len(dev) + 2, Len(eid.ID))
                   ELSE Empty
        byUDID == eid.Type \in {"Device", "User"}
    IN  Block(IF byUDID THEN dev ELSE Empty, IF byUDID THEN Empty ELSE dev,
              usr, Empty, HasColon(eid.ID))

\* The normalizer is applied to the two enrollment blocks given, to the
\* first one a second time, and to the block its EnrollID stands for.
NormalizeCall ==
    /\ last.op = "input"
    /\ last' = [op |-> "normalize", e1 |-> last.e1, e2 |-> last.e2,
                eid1 |-> normalize(last.e1), eid2 |-> normalize(last.e2),
                again |-> normalize(last.e1),
                back |-> IF normalize(last.e1) = Nil THEN Nil
                         ELSE normalize(Inverse(normalize(last.e1))),
                err |-> setupRequest(last.e1).err]
    /\ UNCHANGED <<storeVars, handlers, inflight, certVars, historyVars, w>>

\* The normalizer specification: any two enrollment blocks are given.
InitNormalize ==
    /\ InitStore
    /\ handlers = NoHandlers
    /\ cert_auth_associations = {}
    /\ now = 0
    /\ acked = {}
    /\ revived = {}
    /\ delivered = {}
    /\ last \in {[op |-> "input", e1 |-> a, e2 |-> b] :
                    a \in NormBlocks, b \in NormBlocks}
    /\ w = NoResponse
    /\ inflight = [k \in Workers |-> IdleCall]

NextNormalize == NormalizeCall

SpecNormalize == InitNormalize /\ [][NextNormalize]_vars

(***************************************************************************)
(* Properties                                                              *)
(***************************************************************************)
AuthenticateOrder == <<"StoreAuthenticate", "ClearQueue", "Disable">>

\* C1: Authenticate invokes StoreAuthenticate, ClearQueue and Disable in that
\* order; a step that fails ends the request with that step's error and no
\* later step is invoked, so a failed StoreAuthenticate leaves the queue and
\* the enabled flags as they were and a failed ClearQueue leaves the enabled
\* flags as they were.
C1_AuthenticateOrdered ==
    [][ (last'.op = "Authenticate" /\ last'.err # <<"InvalidEnrollment">>) =>
          LET calls == last'.calls
              n     == Len(calls)
          IN  /\ n \in 1..3
              /\ \A i \in 1..n : calls[i].op = AuthenticateOrder[i]
              /\ \A i \in 1..(n-1) : calls[i].err = NoErr
              /\ last'.err = calls[n].err
              /\ n < 3 => calls[n].err # NoErr
              /\ (calls[1].err # NoErr) => UNCHANGED <<queue, enabled>>
              /\ (n >= 2 /\ calls[2].err # NoErr) => UNCHANGED enabled
      ]_vars

\* C1 witness: ClearQueue failed after StoreAuthenticate succeeded, and the
\* enrollment is still enabled with its command still queued.
C1_Witness ==
    /\ last.op = "Authenticate"
    /\ last.ID = IdA
    /\ Len(last.calls) = 2
    /\ last.calls[2].err # NoErr
    /\ authenticated[IdA]
    /\ enabled[IdA]
    /\ \E q \in queue : q.enroll_id = IdA

\* C2: an enabled enrollment has received at least one TokenUpdate, and a
\* successful Authenticate or CheckOut leaves its enrollment disabled.
C2_EnabledOnlyAfterTokenUpdate ==
    /\ \A i \in IDs : enabled[i] => token_update_tally[i] >= 1
    /\ (last.op \in {"Authenticate", "CheckOut"} /\ last.err = NoErr)
          => ~enabled[last.ID]

\* C2 witness: the user enrollment checked out after a TokenUpdate while
\* its device enrollment stays enabled.
C2_Witness ==
    /\ last.op = "CheckOut"
    /\ last.err = NoErr
    /\ last.ID = IdAU
    /\ token_update_tally[IdAU] >= 1
    /\ ~enabled[IdAU]
    /\ enabled[IdA]

Entry(id, uuid, status) ==
    [enroll_id |-> id, command_uuid |-> uuid, status |-> status]

Returned == last.op = "CommandAndReportResults" /\ last.err = NoErr
            /\ last.resp # None

QueueKeys(q) == {<<x.enroll_id, x.command_uuid>> : x \in q}

\* C6: a successful Authenticate of D leaves no queue entry for D and its
\* user enrollments and leaves them disabled; a command report of an
\* enrollment without queue entries is answered with no command; a successful
\* TokenUpdate enables its enrollment and leaves the queue as it is; and an
\* entry enters the queue only with a command uuid that was never enqueued.
C6_ReenrollClearsQueue ==
    [][ /\ (last'.op = "Authenticate" /\ last'.err = NoErr) =>
              /\ \A q \in queue' : q.enroll_id \notin Family(last'.ID)
              /\ \A x \in Family(last'.ID) : ~enabled'[x]
        /\ ( /\ last'.op = "CommandAndReportResults"
             /\ \A q \in queue : q.enroll_id # last'.ID )
              => last'.resp = None
        /\ (last'.op = "TokenUpdate" /\ last'.err = NoErr) =>
              /\ enabled'[last'.ID]
              /\ queue' = queue
        /\ \A k \in QueueKeys(queue') \ QueueKeys(queue) : k[2] \notin commands
      ]_vars

\* C6 witness: A is enabled again by a TokenUpdate after its re-enrollment,
\* and the command enqueued before is in no queue.
C6_Witness ==
    /\ last.op = "TokenUpdate"
    /\ last.err = NoErr
    /\ last.ID = IdA
    /\ enabled[IdA]
    /\ token_update_tally[IdA] = 2
    /\ "U1" \in commands
    /\ queue = {}

CheckinOps ==
    {"Authenticate", "TokenUpdate", "CheckOut", "UserAuthenticate",
     "SetBootstrapToken", "GetBootstrapToken", "DeclarativeManagement",
     "GetToken", "CommandAndReportResults"}

\* C5: a request of any kind whose EnrollID fails validation is answered
\* with the InvalidEnrollment error, invokes no storage operation and no
\* handler, and leaves the store as it was; a request whose EnrollID is valid
\* is not answered with that error.
C5_InvalidEnrollmentShortCircuits ==
    [][ last'.op \in CheckinOps =>
          IF Validate(last'.EnrollID) # NoErr
            THEN /\ last'.err = <<"InvalidEnrollment">>
                 /\ last'.calls = << >>
                 /\ UNCHANGED storeVars
            ELSE last'.err # <<"InvalidEnrollment">>
      ]_vars

\* C5 witness: a TokenUpdate on a user channel without a user id is refused
\* while the device enrollment is enabled.
C5_Witness ==
    /\ last.op = "TokenUpdate"
    /\ last.EnrollID # Nil
    /\ last.err = <<"InvalidEnrollment">>
    /\ enabled[IdA]
    /\ bootstrap_token[IdA] = "B1"

HandlerOf(op) ==
    CASE op = "UserAuthenticate" -> [set |-> handlers.ua,
                                     name |-> "ua.UserAuthenticate",
                                     missing |-> <<"no UserAuthenticate handler">>]
      [] op = "DeclarativeManagement" -> [set |-> handlers.dm,
                                     name |-> "dm.DeclarativeManagement",
                                     missing |-> <<"no Declarative Management handler">>]
      [] op = "GetToken" -> [set |-> handlers.gt,
                                     name |-> "gt.GetToken",
                                     missing |-> <<"no GetToken handler">>]

\* C9: UserAuthenticate, DeclarativeManagement and GetToken on a valid
\* enrollment: without the handler the request fails with the
\* not-implemented error, returns no bytes and invokes nothing; with the
\* handler it invokes the handler once and returns the handler's bytes and
\* error; either way the store is left as it was.
C9_OptionalHandlers ==
    [][ ( /\ last'.op \in {"UserAuthenticate", "DeclarativeManagement", "GetToken"}
          /\ Validate(last'.EnrollID) = NoErr ) =>
          /\ UNCHANGED storeVars
          /\ IF HandlerOf(last'.op).set
                THEN /\ Len(last'.calls) = 1
                     /\ last'.calls[1].op = HandlerOf(last'.op).name
                     /\ last'.resp = last'.calls[1].ret
                     /\ last'.err = last'.calls[1].err
                ELSE /\ last'.calls = << >>
                     /\ last'.resp = Empty
                     /\ last'.err = HandlerOf(last'.op).missing
      ]_vars

\* C9 witness: the Declarative Management handler returned bytes together
\* with an error, and the service returned both.
C9_Witness ==
    /\ last.op = "DeclarativeManagement"
    /\ handlers.dm
    /\ ~handlers.ua
    /\ last.resp = <<"x">>
    /\ last.err = <<"HandlerError">>
    /\ enabled[IdA]

\* The hashes associated with an enrollment id.
HashesOf(id) == {r.sha256 : r \in {x \in cert_auth_associations : x.id = id}}

RowKey(r) == <<r.id, r.sha256>>

StatusFor(err) ==
    IF As(err).ok THEN As(err).Status ELSE StatusInternalServerError

\* C10: after a request served by either HTTP handler, if the service
\* returned an error the response has the status of the HTTPStatusError of
\* the error chain, or 500 without one, and its body is only the status text
\* of that status; if the service succeeded the response is 200 with exactly
\* the bytes the service returned.
C10_HTTPErrorMapping ==
    last.op \in HTTPKinds \cup {"CommandAndReportResults"} =>
        IF last.err = NoErr
          THEN w = [status |-> StatusOK, body |-> last.resp]
          ELSE w = [status |-> StatusFor(last.err),
                    body |-> StatusText(StatusFor(last.err)) \o <<"\n">>]

\* C10 failing state: the UserAuthenticate handler returned bytes and an
\* error holding an HTTPStatusError of status 403; the response has status
\* 403 and the bytes follow the status text in its body.
C10_Witness ==
    /\ last.op = "UserAuthenticate"
    /\ last.err = <<"handler", "HTTPStatusError{403}", "cause">>
    /\ last.resp = <<"x">>
    /\ w = [status |-> 403, body |-> <<"Forbidden", "\n", "x">>]

\* What the handlers do answer: the status as claimed, and a body that is
\* the status text followed by the bytes the service returned.
HTTPResponseWritten ==
    last.op \in HTTPKinds \cup {"CommandAndReportResults"} =>
        IF last.err = NoErr
          THEN w = [status |-> StatusOK, body |-> last.resp]
          ELSE w = [status |-> StatusFor(last.err),
                    body |-> StatusText(StatusFor(last.err)) \o <<"\n">>
                              \o last.resp]

\* C11: an idle poll whose storage calls do not fail leaves the queue as it
\* was and sets the last_seen of its enrollment to the time of the poll,
\* leaving the last_seen of the others; when the queue held no deliverable
\* command for the enrollment it returns no command and no error.
C11_IdlePoll ==
    [][ ( /\ last'.op = "CommandAndReportResults"
          /\ now' = now
          /\ last'.report = [CommandUUID |-> "", Status |-> "Idle"]
          /\ Len(last'.calls) >= 1
          /\ \A i \in DOMAIN last'.calls : last'.calls[i].err = NoErr ) =>
          /\ queue' = queue
          /\ last_seen' = [last_seen EXCEPT ![last'.ID] = now]
          /\ Deliverable(Store, last'.ID, FALSE) = {} =>
                (last'.resp = None /\ last'.err = NoErr)
      ]_vars

\* C11 witness: A reported at time 0 and deferred U1 at time 1; the idle
\* poll of A:U at time 2, whose queue is empty, is answered with no command.
C11_Witness ==
    /\ last.op = "CommandAndReportResults"
    /\ last.ID = IdAU
    /\ last.report = [CommandUUID |-> "", Status |-> "Idle"]
    /\ last.resp = None
    /\ last.err = NoErr
    /\ now = 2
    /\ last_seen = (IdA :> 1 @@ IdAU :> 2)
    /\ queue = {Entry(IdA, "U1", "NotNow")}

\* C12 as claimed: after a successful CheckOut of E the queue holds no
\* deliverable command for E and E is disabled.
C12_CheckOutClearsQueue ==
    (last.op = "CheckOut" /\ last.err = NoErr) =>
        /\ Deliverable(Store, last.ID, FALSE) = {}
        /\ ~enabled[last.ID]

\* C12: a successful CheckOut of E and a successful Authenticate of E both
\* leave E and its sub-enrollments disabled; the Authenticate leaves them no
\* deliverable command, the CheckOut leaves them the deliverable commands
\* they had.
C12_Deactivation ==
    [][ /\ (last'.op = "CheckOut" /\ last'.err = NoErr) =>
              \A x \in Family(last'.ID) :
                  /\ ~enabled'[x]
                  /\ Deliverable(Store', x, FALSE) = Deliverable(Store, x, FALSE)
        /\ (last'.op = "Authenticate" /\ last'.err = NoErr) =>
              \A x \in Family(last'.ID) :
                  /\ ~enabled'[x]
                  /\ Deliverable(Store', x, FALSE) = {}
      ]_vars

\* C12 witness: A, which had been enabled, checked out with U1 pending in
\* its queue; it is disabled and U1 is still pending.
C12_Witness ==
    /\ last.op = "CheckOut"
    /\ last.err = NoErr
    /\ last.ID = IdA
    /\ token_update_tally[IdA] >= 1
    /\ ~enabled[IdA]
    /\ Deliverable(Store, IdA, FALSE) = {"U1"}

\* An enrollment block that passes validation: it has a device id, a user
\* channel has a user id, and neither id holds the delimiter.
WellFormed(e) ==
    /\ Resolved(e) # Nil
    /\ Resolved(e).DeviceChannelID # Empty
    /\ ~HasColon(Resolved(e).DeviceChannelID)
    /\ Resolved(e).IsUserChannel =>
          /\ Resolved(e).UserChannelID # Empty
          /\ ~HasColon(Resolved(e).UserChannelID)

\* Two resolved enrollments differ in channel kind, device id or user id.
Differ(r1, r2) ==
    \/ r1.IsUserChannel # r2.IsUserChannel
    \/ r1.DeviceChannelID # r2.DeviceChannelID
    \/ r1.IsUserChannel /\ r2.IsUserChannel
          /\ r1.UserChannelID # r2.UserChannelID

\* C13 as claimed: for every enrollment block that resolves, normalizing
\* the block its EnrollID stands for gives the same EnrollID, and two blocks
\* that resolve and differ in channel kind, device id or user id have
\* different ids.
C13_RoundTripResolvable ==
    last.op = "normalize" =>
        /\ Resolved(last.e1) # Nil => last.back = last.eid1
        /\ ( /\ Resolved(last.e1) # Nil
             /\ Resolved(last.e2) # Nil
             /\ Differ(Resolved(last.e1), Resolved(last.e2)) )
              => last.eid1.ID # last.eid2.ID

\* C13: setupRequest accepts exactly the blocks that pass validation; for
\* every such block, normalizing the block its EnrollID stands for gives the
\* same EnrollID, and two such blocks that differ in channel kind, device id
\* or user id have different ids; a second application gives the same
\* EnrollID as the first.
C13_RoundTripValid ==
    last.op = "normalize" =>
        /\ (last.err = NoErr) <=> WellFormed(last.e1)
        /\ WellFormed(last.e1) => last.back = last.eid1
        /\ ( /\ WellFormed(last.e1)
             /\ WellFormed(last.e2)
             /\ Differ(Resolved(last.e1), Resolved(last.e2)) )
              => last.eid1.ID # last.eid2.ID
        /\ last.again = last.eid1

\* C13 witness: the user channels (AU, U) and (A, UU), which share their
\* characters, have the ids AU:U and A:UU, and AU:U is split back into
\* (AU, U).
C13_Witness ==
    /\ last.op = "normalize"
    /\ last.e1 = Block(<<"A", "U">>, Empty, <<"U">>, Empty, TRUE)
    /\ last.e2 = Block(<<"A">>, Empty, <<"U", "U">>, Empty, TRUE)
    /\ last.eid1 = [Type |-> "User", ID |-> <<"A", "U", ":", "U">>,
                     ParentID |-> <<"A", "U">>]
    /\ last.eid2.ID = <<"A", ":", "U", "U">>
    /\ last.back = last.eid1
    /\ last.err = NoErr

C15_CheckOutDisablesOnly ==
    [][ last'.op = "CheckOut" =>
          /\ UNCHANGED <<authenticated, token_update_tally, push_token,
                         bootstrap_token, queue, commands, last_seen,
                         cert_auth_associations>>
          /\ \A i \in DOMAIN last'.calls :
                last'.calls[i].op \notin {"StoreAuthenticate", "ClearQueue"}
          /\ IF last'.err = NoErr
               THEN /\ last'.calls = <<Call("Disable", NoErr)>>
                    /\ enabled' = [x \in IDs |->
                                     IF x \in Family(last'.ID) THEN FALSE
                                     ELSE enabled[x]]
               ELSE UNCHANGED enabled
      ]_vars

\* C15 witness: A checked out; A and A:U, which had been enabled, are
\* disabled, and the push token, the bootstrap token, the tally, the queued
\* command and the certificate association of A are there.
C15_Witness ==
    /\ last.op = "CheckOut"
    /\ last.err = NoErr
    /\ last.ID = IdA
    /\ ~enabled[IdA] /\ ~enabled[IdAU]
    /\ token_update_tally = (IdA :> 1 @@ IdAU :> 1)
    /\ push_token[IdA] = "T1"
    /\ bootstrap_token[IdA] = "B1"
    /\ Entry(IdA, "U1", "pending") \in queue
    /\ \E r \in cert_auth_associations : r.id = IdA

\* C16 as claimed: the command an enrollment has just reported NotNow is
\* eligible for the response to that report, so the response holds a
\* command.
C16_NotNowReportAnswered ==
    ( /\ last.op = "CommandAndReportResults"
      /\ last.err = NoErr
      /\ last.report.Status = "NotNow"
      /\ Entry(last.ID, last.report.CommandUUID, "NotNow") \in queue )
    => last.resp # None

\* C16: a successful command report whose status is NotNow is answered with
\* one of the pending commands of the enrollment, and with no command when
\* it has none: the deferred commands, the one just reported among them, are
\* skipped in the response to that report.
C16_NotNowReportSkipsDeferred ==
    ( /\ last.op = "CommandAndReportResults"
      /\ last.err = NoErr
      /\ last.report.Status = "NotNow" )
    => /\ IF Deliverable(Store, last.ID, TRUE) = {}
            THEN last.resp = None
            ELSE last.resp \in Deliverable(Store, last.ID, TRUE)
       /\ Entry(last.ID, last.resp, "NotNow") \notin queue

\* C16 witness: A reported U1 NotNow while U2 was deferred too and nothing
\* was pending; the response holds no command.
C16_Witness ==
    /\ last.op = "CommandAndReportResults"
    /\ last.err = NoErr
    /\ last.ID = IdA
    /\ last.report = [CommandUUID |-> "U1", Status |-> "NotNow"]
    /\ last.resp = None
    /\ Entry(IdA, "U1", "NotNow") \in queue
    /\ Entry(IdA, "U2", "NotNow") \in queue

\* C17: normalize gives no EnrollID for a block that does not resolve; for
\* a resolved device channel it gives the resolved type, the device channel
\* id as id and an empty parent id; for a resolved user channel it gives the
\* resolved type, the device channel id, a colon and the user channel id as
\* id, and the device channel id as parent id, so that the id begins with
\* the parent id followed by a colon.
C17_NormalizeShape ==
    last.op = "normalize" =>
        LET r == Resolved(last.e1)
        IN  IF r = Nil THEN last.eid1 = Nil
            ELSE /\ last.eid1 # Nil
                 /\ last.eid1.Type = r.Type
                 /\ IF r.IsUserChannel
                      THEN /\ last.eid1.ID = r.DeviceChannelID \o <<":">>
                                                \o r.UserChannelID
                           /\ last.eid1.ParentID = r.DeviceChannelID
                           /\ IsPrefix(last.eid1.ParentID \o <<":">>,
                                       last.eid1.ID)
                      ELSE /\ last.eid1.ID = r.DeviceChannelID
                           /\ last.eid1.ParentID = Empty

\* C17 witness: the user channel with EnrollmentID E and UserShortName S
\* has the id E:S and the parent id E, and the empty block has no EnrollID.
C17_Witness ==
    /\ last.op = "normalize"
    /\ last.e1 = Block(Empty, <<"E">>, Empty, <<"S">>, TRUE)
    /\ last.eid1 = [Type |-> "UserEnrollment", ID |-> <<"E", ":", "S">>,
                     ParentID |-> <<"E">>]
    /\ last.e2 = Block(Empty, Empty, Empty, Empty, FALSE)
    /\ last.eid2 = Nil

\* C18 as claimed: a lookup of the enrollment of a hash that the database
\* does not fail gives an enrollment id exactly when HasCertHash holds of
\* the hash, and IsCertHashAssociated holds of the id it gives and the hash.
C18_LookupsAgree ==
    (last.op = "EnrollmentFromHash" /\ ~last.fault) =>
        /\ (last.ID # Empty)
              <=> HasCertHash(cert_auth_associations, last.cert, FALSE).ok
        /\ last.ID # Empty =>
              IsCertHashAssociated(cert_auth_associations, last.ID,
                                   last.cert, FALSE).ok

\* C18 failing state: the hash a is associated with A, and the lookup of
\* the hash A gives no enrollment, while HasCertHash holds of A.
C18_Witness ==
    /\ last.op = "EnrollmentFromHash"
    /\ last.cert = <<"A">>
    /\ last.err = NoErr
    /\ last.ID = Empty
    /\ \E r \in cert_auth_associations : r.id = IdA /\ r.sha256 = <<"a">>
    /\ HasCertHash(cert_auth_associations, <<"A">>, FALSE).ok

\* What the lookups do: they agree on the hashes that are in lower case.
LookupsAgreeInLowerCase ==
    (last.op = "EnrollmentFromHash" /\ ~last.fault
       /\ last.cert = ToLower(last.cert)) =>
        /\ (last.ID # Empty)
              <=> HasCertHash(cert_auth_associations, last.cert, FALSE).ok
        /\ last.ID # Empty =>
              IsCertHashAssociated(cert_auth_associations, last.ID,
                                   last.cert, FALSE).ok

\* C19: whatever the interleaving of the workers' statements, a call of
\* AssociateCertHash that has completed has no error and its pair has a row;
\* and the table never holds two rows for a pair, so that two calls for the
\* same pair leave one row and two calls for the same enrollment with
\* different hashes leave both hashes with the enrollment.
C19_ConcurrentAssociate ==
    /\ \A k \in Workers :
          inflight[k].pc = "done" =>
              /\ inflight[k].err = NoErr
              /\ Cardinality({r \in cert_auth_associations :
                                 /\ r.id = inflight[k].id
                                 /\ r.sha256 = inflight[k].sha256}) = 1
    /\ \A r1, r2 \in cert_auth_associations :
          RowKey(r1) = RowKey(r2) => r1 = r2

\* C19 witness: both workers have completed a call for (A, a); the key was
\* inserted between the probe and the insertion of w2; the one row has
\* w1's creation time and w2's update time.
C19_Witness ==
    /\ inflight["w1"] = [pc |-> "done", id |-> IdA, sha256 |-> <<"a">>,
                          err |-> NoErr, raced |-> FALSE]
    /\ inflight["w2"] = [pc |-> "done", id |-> IdA, sha256 |-> <<"a">>,
                          err |-> NoErr, raced |-> TRUE]
    /\ cert_auth_associations =
          {[id |-> IdA, sha256 |-> <<"a">>, created_at |-> 0, updated_at |-> 1]}

\* The queue after the report of `report` by enrollment id has been stored.
ReportStored(q0, id, report) ==
    {IF q.enroll_id = id /\ q.command_uuid = report.CommandUUID
       THEN [q EXCEPT !.status = report.Status]
       ELSE q : q \in q0}

\* C20: a CommandAndReportResults that reaches storage invokes
\* StoreCommandReport first and RetrieveNextCommand, if at all, second.
\* When StoreCommandReport fails nothing else is invoked, the call returns
\* an error and no command, and storage is as it was.  When it succeeds the
\* report is stored and RetrieveNextCommand is invoked on the storage that
\* holds it, so that a command just reported Acknowledged or Error is not
\* the one returned; when RetrieveNextCommand then fails the call returns
\* an error and no command and the report stays stored.
C20_ReportBeforeNextCommand ==
    [][ ( /\ last'.op = "CommandAndReportResults"
          /\ now' = now
          /\ Len(last'.calls) >= 1 ) =>
          /\ last'.calls[1].op = "StoreCommandReport"
          /\ Len(last'.calls) <= 2
          /\ Len(last'.calls) = 2 => last'.calls[2].op = "RetrieveNextCommand"
          /\ last'.calls[1].err # NoErr =>
                /\ Len(last'.calls) = 1
                /\ last'.err = Wrap("storing command report", last'.calls[1].err)
                /\ last'.resp = None
                /\ UNCHANGED storeVars
          /\ last'.calls[1].err = NoErr =>
                /\ Len(last'.calls) = 2
                /\ queue' = ReportStored(queue, last'.ID, last'.report)
                /\ last_seen' = [last_seen EXCEPT ![last'.ID] = now]
                /\ last'.calls[2].err # NoErr =>
                      /\ last'.err = Wrap("retrieving next command",
                                          last'.calls[2].err)
                      /\ last'.resp = None
                /\ last'.calls[2].err = NoErr =>
                      /\ last'.err = NoErr
                      /\ last'.report.Status \in {"Acknowledged", "Error"} =>
                            last'.resp # last'.report.CommandUUID
      ]_vars

\* C20 witness: A reported Acknowledged for the queued U1 at time 1, the
\* retrieval of the next command failed, and the entry is Acknowledged.
C20_Witness ==
    /\ last.op = "CommandAndReportResults"
    /\ last.ID = IdA
    /\ last.report = [CommandUUID |-> "U1", Status |-> "Acknowledged"]
    /\ Len(last.calls) = 2
    /\ last.calls[1] = Call("StoreCommandReport", NoErr)
    /\ last.calls[2].op = "RetrieveNextCommand"
    /\ last.calls[2].err # NoErr
    /\ last.err # NoErr
    /\ last.resp = None
    /\ Entry(IdA, "U1", "Acknowledged") \in queue
    /\ acked = {<<IdA, "U1">>}
    /\ now = 1
    /\ last_seen[IdA] = 1

====
